---- MODULE Spec2Model ----
(***************************************************************************)
(* The persistent chat session of hermit: the interactive loop             *)
(* (run_chat_loop), the session log file (save_chat, load_chat_history)    *)
(* and the background summarization threads (run_summarization,            *)
(* summarize_text), as written in src/src/hermit/cli_utils.py and          *)
(* src/src/hermit/cli.py, with the daemon's handling of a provider error   *)
(* in a chat stream (src/src/hermit/server_utils.py).                      *)
(*                                                                         *)
(* A text is a sequence of words; the external token counter counts one    *)
(* token per word.  A turn is the dict {role, content, timestamp}.  The    *)
(* log file is a sequence of lines; a line is the JSON form of a turn, or  *)
(* a fragment of one (the bytes an overwrite left behind).                 *)
(***************************************************************************)
EXTENDS Integers, Sequences, FiniteSets, TLC

\* ------------------------------------------------------------- bounds
\* user turns accepted in one session
MaxTurns == 3
\* summarization threads one session may start
MaxThreads == 2
\* turns after the first element in the histories given to the window walk
MaxWinLen == 4
\* largest max_context given to the window walk
MaxTarget == 7
\* turns after the persona in a log that chat_new finds under its file name
MaxOldLen == 3
\* characters in the content of a turn that is saved and loaded again
MaxJsonLen == 2
\* turns saved before the log is loaded again
MaxJsonTurns == 2
\* characters in a session name given to slugify
MaxNameLen == 4

\* get_context_limit(config["active_model"]) of the configured model
ContextLimit == 7

VARIABLES
    file,          \* the session log on disk: a sequence of lines
    history,       \* run_chat_loop's in-memory list
    total_tokens,  \* run_chat_loop's running total
    pc,            \* position of the interactive loop
    config,        \* what .hermit/config.toml holds
    prompt,        \* the loop's local prompt: the stripped line last read
    cur,           \* the loop's local user_turn / ai_turn
    payload,       \* the messages of the last chat request sent
    provider,      \* how the provider served the last chat stream
    nturns,        \* user turns accepted so far
    clock,         \* the wall clock read by datetime.now
    thr,           \* the summarization threads
    wh, wmax, wres, wpc,  \* argument and result of a stand-alone window walk
    jturns,        \* the turns given to save_chat, one call each
    jfile,         \* the characters of the log these calls write
    jn,            \* how many of the turns are saved
    jout,          \* what load_chat_history returns for that log
    jpc,           \* position of the save-then-load run
    slug_name,     \* a session name given to slugify
    slug_out,      \* what slugify returns for it
    deltas,        \* what the provider's stream holds: texts and None
    di,            \* how many of them the daemon has handled
    body,          \* the characters the daemon has sent and the client not yet read
    full_response  \* transcribe_stream's accumulator

vars == <<file, history, total_tokens, pc, config, prompt, cur, payload, provider, nturns, clock,
          thr, wh, wmax, wres, wpc, jturns, jfile, jn, jout, jpc,
          slug_name, slug_out, deltas, di, body, full_response>>

sessionVars == <<file, history, total_tokens, pc, config, prompt, cur, payload, provider, nturns,
                 clock, thr>>
walkVars == <<wh, wmax, wres, wpc>>
jsonVars == <<jturns, jfile, jn, jout, jpc>>
slugVars == <<slug_name, slug_out>>
streamVars == <<deltas, di, body, full_response>>

Threads == 1..MaxThreads

\* ------------------------------------------------------------- data
Turn(r, c, ts) == [role |-> r, content |-> c, timestamp |-> ts]

NoTurn == Turn("none", <<>>, 0)

\* the persona text of chat_new
PersonaText == <<"persona">>

PersonaTurn == Turn("system", PersonaText, 0)

\* what the user can type at the prompt
UserTexts == {<<"q">>}

\* " " stands for a run of white space
Inputs ==
    UserTexts \cup {<<>>, <<" ">>, <<"/bye">>, <<"/BYE">>, <<" ", "/bye", " ">>}

\* the value of prompt before the first line is read
NoInput == <<"unbound">>

RECURSIVE StripInputLeft(_)
StripInputLeft(line) ==
    IF line # <<>> /\ Head(line) = " " THEN StripInputLeft(Tail(line)) ELSE line

RECURSIVE StripInputRight(_)
StripInputRight(line) ==
    IF line # <<>> /\ line[Len(line)] = " "
    THEN StripInputRight(SubSeq(line, 1, Len(line) - 1))
    ELSE line

\* typer.prompt(">", default="").strip()
StripInput(line) == StripInputRight(StripInputLeft(line))

\* what the configuration file can hold: no file, a file without active_model,
\* a file that names a model but no provider the daemon knows, a complete one
Configs == {"none", "no_model", "no_provider", "ok"}

\* what the chat stream can deliver in full
Responses == {<<>>, <<"a", "a", "a">>}

\* the message the daemon yields when the provider raises
ErrorText == <<"Error:">>

\* what the provider can have streamed before it raises
StreamedBeforeError == {<<>>}

\* what /hermit/summarize can answer
SummaryTexts == {<<"gist">>}

\* the comparison with "/bye" made without lowering the case
LowerKeepsCase(w) == w

\* str.lower on one word
Lower(w) == IF w = "/BYE" THEN "/bye" ELSE w

LowerText(t) == [i \in 1..Len(t) |-> Lower(t[i])]

\* localgrid.count_tokens: one token per word
count_tokens(text) == Len(text)

RECURSIVE SumTokens(_)
SumTokens(h) ==
    IF h = <<>> THEN 0
    ELSE count_tokens(h[1].content) + SumTokens(Tail(h))

max_context == (ContextLimit * 80) \div 100

summarize_target == (ContextLimit * 60) \div 100

\* ------------------------------------------------------------- the log file
\* json.dumps(turn) + "\n"
Dumps(t) == [valid |-> TRUE, obj |-> t]

\* the rest of a line whose head was overwritten
Garbage == [valid |-> FALSE, obj |-> NoTurn]

\* the line is written at the head of the file instead of its end
AppendLineFront(f, t) == <<Dumps(t)>> \o f

\* the line is written before the turn has its timestamp
AppendLineUnstamped(f, t) ==
    Append(f, Dumps([role |-> t.role, content |-> t.content, timestamp |-> 0 - 1]))

\* open(file_path, "a"); write one line
AppendLine(f, t) == Append(f, Dumps(t))

\* load_chat_history: json.loads of every line; a malformed line raises
Loadable(f) == \A i \in 1..Len(f) : f[i].valid

load_chat_history(f) == [i \in 1..Len(f) |-> f[i].obj]

\* the number of leading lines two files have in common
RECURSIVE CommonPrefix(_, _)
CommonPrefix(a, b) ==
    IF a = <<>> \/ b = <<>> \/ Head(a) # Head(b) THEN 0
    ELSE 1 + CommonPrefix(Tail(a), Tail(b))

\* the file after the buffer of a handle opened with "w" is flushed at offset
\* 0 over what the file holds by then: the new content alone when it is at
\* least as long, otherwise followed by what is left of the older bytes (the
\* rest of a line cut somewhere, then the lines after it).  The new content
\* covers at least the leading lines it shares with the old one.
Overwrite(old, new) ==
    {new} \cup { new \o <<Garbage>> \o SubSeq(old, j + 1, Len(old)) :
                    j \in (CommonPrefix(old, new) + 1)..Len(old) }

\* ------------------------------------------------------------- summarize_text
RECURSIVE Walk(_, _, _, _, _)
Walk(h, i, window_count, acc, maxc) ==
    IF i > Len(h) THEN acc
    ELSE IF h[i] = h[1] THEN Walk(h, i + 1, window_count, acc, maxc)
    ELSE LET extra_tokens == count_tokens(h[i].content)
         IN IF window_count + extra_tokens < maxc
            THEN Walk(h, i + 1, window_count + extra_tokens, Append(acc, h[i]), maxc)
            ELSE acc

\* the walk with the budget tested before the turn is added, not after
RECURSIVE WalkLate(_, _, _, _, _)
WalkLate(h, i, window_count, acc, maxc) ==
    IF i > Len(h) THEN acc
    ELSE IF h[i] = h[1] THEN WalkLate(h, i + 1, window_count, acc, maxc)
    ELSE LET extra_tokens == count_tokens(h[i].content)
         IN IF window_count < maxc
            THEN WalkLate(h, i + 1, window_count + extra_tokens, Append(acc, h[i]), maxc)
            ELSE acc

WindowLate(h, maxc) == WalkLate(h, 1, 0, <<>>, maxc)

\* messages_to_summarize
Window(h, maxc) == Walk(h, 1, 0, <<>>, maxc)

\* the lines summarize_text writes back
NewContent(lines, k, summary) ==
    <<lines[1], Dumps(summary)>> \o SubSeq(lines, k + 2, Len(lines))

\* str.upper of a role, followed by ":"
RoleLabel(r) ==
    IF r = "user" THEN "USER:" ELSE IF r = "assistant" THEN "ASSISTANT:" ELSE "SYSTEM:"

\* formatted_history: one "ROLE: content" line per turn of the window
RECURSIVE Transcript(_)
Transcript(win) ==
    IF win = <<>> THEN <<>>
    ELSE <<RoleLabel(win[1].role)>> \o win[1].content \o Transcript(Tail(win))

\* the prompt summarize_text puts into its request
SummaryPrompt(system_msg, win) ==
    <<"PERSONA CONTEXT:">> \o system_msg \o <<"CONVERSATION TO SUMMARIZE:">>
        \o Transcript(win) \o <<"rules">>

\* the prompt the daemon's /hermit/summarize gives the provider
DaemonSummarizePrompt(request_prompt) ==
    <<"Please summarize the following conversation accurately and concisely.">>

IdleThread == [pc |-> "idle", win |-> <<>>, res |-> <<>>, lines |-> <<>>,
               summary |-> NoTurn, sys |-> <<>>, asked |-> <<>>]

InFlight(t) == thr[t].pc \in {"start", "request", "read", "open", "write",
                              "clear", "extend"}

\* ------------------------------------------------------------- initial state
\* chat_new: the persona turn is saved, then run_chat_loop(file_path, [data])
Init ==
    /\ file = <<Dumps(PersonaTurn)>>
    /\ history = <<PersonaTurn>>
    /\ total_tokens = SumTokens(<<PersonaTurn>>)
    /\ pc = "prompt"
    /\ config = "ok"
    /\ prompt = NoInput
    /\ cur = NoTurn
    /\ payload = <<>>
    /\ provider = "none"
    /\ nturns = 0
    /\ clock = 1
    /\ thr = [t \in Threads |-> IdleThread]
    /\ wh = <<>> /\ wmax = 0 /\ wres = <<>> /\ wpc = "off"
    /\ jturns = <<>> /\ jfile = <<>> /\ jn = 0 /\ jout = <<>> /\ jpc = "off"
    /\ slug_name = <<>> /\ slug_out = <<>>
    /\ deltas = <<>> /\ di = 0 /\ body = <<>> /\ full_response = <<>>

\* ------------------------------------------------------------- run_chat_loop
\* "/bye" in any case ends the loop
ReadBye ==
    /\ pc = "prompt"
    /\ \E input \in Inputs :
          /\ LowerText(StripInput(input)) = <<"/bye">>
          /\ prompt' = StripInput(input)
          /\ pc' = "terminated"
    /\ UNCHANGED <<file, history, total_tokens, cur, payload, provider, config, nturns, clock, thr>>
    /\ UNCHANGED walkVars
    /\ UNCHANGED jsonVars
    /\ UNCHANGED slugVars
    /\ UNCHANGED streamVars

\* an empty prompt is taken as a user turn
ReadEmptyAsTurn ==
    /\ pc = "prompt"
    /\ nturns < MaxTurns
    /\ \E input \in Inputs :
          /\ StripInput(input) = <<>>
          /\ prompt' = StripInput(input)
          /\ cur' = Turn("user", prompt', clock)
    /\ history' = Append(history, cur')
    /\ clock' = clock + 1
    /\ nturns' = nturns + 1
    /\ pc' = "save_user"
    /\ UNCHANGED <<file, total_tokens, payload, provider, config, thr>>
    /\ UNCHANGED walkVars
    /\ UNCHANGED jsonVars
    /\ UNCHANGED slugVars
    /\ UNCHANGED streamVars

\* an empty prompt: continue
ReadEmpty ==
    /\ pc = "prompt"
    /\ \E input \in Inputs :
          /\ StripInput(input) = <<>>
          /\ prompt' = StripInput(input)
          /\ pc' = "prompt"
    /\ UNCHANGED <<file, history, total_tokens, cur, payload, provider, config, nturns, clock, thr>>
    /\ UNCHANGED walkVars
    /\ UNCHANGED jsonVars
    /\ UNCHANGED slugVars
    /\ UNCHANGED streamVars

\* the prompt is read only once every summarization thread has ended
ReadPromptJoined ==
    /\ pc = "prompt"
    /\ nturns < MaxTurns
    /\ \A t \in Threads : ~InFlight(t)
    /\ \E input \in Inputs :
          /\ StripInput(input) # <<>>
          /\ LowerText(StripInput(input)) # <<"/bye">>
          /\ prompt' = StripInput(input)
          /\ cur' = Turn("user", prompt', clock)
          /\ total_tokens' = total_tokens + count_tokens(prompt')
    /\ history' = Append(history, cur')
    /\ clock' = clock + 1
    /\ nturns' = nturns + 1
    /\ pc' = "save_user"
    /\ UNCHANGED <<file, payload, provider, config, thr>>
    /\ UNCHANGED walkVars
    /\ UNCHANGED jsonVars
    /\ UNCHANGED slugVars
    /\ UNCHANGED streamVars

\* a prompt: user_turn is built, its tokens are added to the total, it is
\* appended to the history and stamped with the time of now
ReadPrompt ==
    /\ pc = "prompt"
    /\ nturns < MaxTurns
    /\ \E input \in Inputs :
          /\ StripInput(input) # <<>>
          /\ LowerText(StripInput(input)) # <<"/bye">>
          /\ prompt' = StripInput(input)
          /\ cur' = Turn("user", prompt', clock)
          /\ total_tokens' = total_tokens + count_tokens(prompt')
    /\ history' = Append(history, cur')
    /\ clock' = clock + 1
    /\ nturns' = nturns + 1
    /\ pc' = "save_user"
    /\ UNCHANGED <<file, payload, provider, config, thr>>
    /\ UNCHANGED walkVars
    /\ UNCHANGED jsonVars
    /\ UNCHANGED slugVars
    /\ UNCHANGED streamVars

\* save_chat(file_path, user_turn)
SaveUser ==
    /\ pc = "save_user"
    /\ file' = AppendLine(file, cur)
    /\ pc' = "request"
    /\ UNCHANGED <<history, total_tokens, cur, payload, provider, config, prompt, nturns, clock, thr>>
    /\ UNCHANGED walkVars
    /\ UNCHANGED jsonVars
    /\ UNCHANGED slugVars
    /\ UNCHANGED streamVars

\* the failure of save_chat is reported and the loop goes on
SaveFailsContinues ==
    /\ pc \in {"save_user", "save_ai"}
    /\ pc' = (IF pc = "save_user" THEN "request" ELSE "check")
    /\ UNCHANGED <<file, history, total_tokens, cur, payload, provider, config, prompt, nturns, clock, thr>>
    /\ UNCHANGED walkVars
    /\ UNCHANGED jsonVars
    /\ UNCHANGED slugVars
    /\ UNCHANGED streamVars

\* save_chat fails with OSError: typer.Exit(code=1)
SaveFails ==
    /\ pc \in {"save_user", "save_ai"}
    /\ pc' = "exited"
    /\ UNCHANGED <<file, history, total_tokens, cur, payload, provider, config, prompt, nturns, clock, thr>>
    /\ UNCHANGED walkVars
    /\ UNCHANGED jsonVars
    /\ UNCHANGED slugVars
    /\ UNCHANGED streamVars

\* transcribe_stream: the request carries the history as it is now
SendRequest ==
    /\ pc = "request"
    /\ payload' = history
    /\ provider' = "none"
    /\ pc' = "stream"
    /\ UNCHANGED <<file, history, total_tokens, config, prompt, cur, nturns, clock, thr>>
    /\ UNCHANGED walkVars
    /\ UNCHANGED jsonVars
    /\ UNCHANGED slugVars
    /\ UNCHANGED streamVars

\* the request fails: _make_request raises typer.Exit(code=1)
StreamFails ==
    /\ pc = "stream"
    /\ pc' = "exited"
    /\ UNCHANGED <<file, history, total_tokens, cur, payload, provider, config, prompt, nturns, clock, thr>>
    /\ UNCHANGED walkVars
    /\ UNCHANGED jsonVars
    /\ UNCHANGED slugVars
    /\ UNCHANGED streamVars

\* the assistant turn is appended without its tokens being added to the total
StreamDoneUncounted ==
    /\ pc = "stream"
    /\ \E ai_response \in Responses : cur' = Turn("assistant", ai_response, clock)
    /\ history' = Append(history, cur')
    /\ clock' = clock + 1
    /\ payload' = <<>>
    /\ provider' = "ok"
    /\ pc' = "save_ai"
    /\ UNCHANGED <<file, total_tokens, config, prompt, nturns, thr>>
    /\ UNCHANGED walkVars
    /\ UNCHANGED jsonVars
    /\ UNCHANGED slugVars
    /\ UNCHANGED streamVars

\* the stream ends: ai_turn is built, its tokens are added to the total, it is
\* appended to the history and stamped with the time of now
StreamDone ==
    /\ pc = "stream"
    /\ \E ai_response \in Responses :
          /\ cur' = Turn("assistant", ai_response, clock)
          /\ total_tokens' = total_tokens + count_tokens(ai_response)
    /\ history' = Append(history, cur')
    /\ clock' = clock + 1
    /\ payload' = <<>>
    /\ provider' = "ok"
    /\ pc' = "save_ai"
    /\ UNCHANGED <<file, config, prompt, nturns, thr>>
    /\ UNCHANGED walkVars
    /\ UNCHANGED jsonVars
    /\ UNCHANGED slugVars
    /\ UNCHANGED streamVars

\* the provider's error ends the session instead of the stream
StreamErrorExits ==
    /\ pc = "stream"
    /\ provider' = "error"
    /\ pc' = "exited"
    /\ UNCHANGED <<file, history, total_tokens, config, prompt, cur, payload, nturns, clock, thr>>
    /\ UNCHANGED walkVars
    /\ UNCHANGED jsonVars
    /\ UNCHANGED slugVars
    /\ UNCHANGED streamVars

\* the provider raises while the daemon streams: universal_ai_stream_with_context
\* yields its error message as the last chunk, and the stream ends as any other
StreamError ==
    /\ pc = "stream"
    /\ \E partial \in StreamedBeforeError :
          LET ai_response == partial \o ErrorText
          IN /\ cur' = Turn("assistant", ai_response, clock)
             /\ total_tokens' = total_tokens + count_tokens(ai_response)
    /\ history' = Append(history, cur')
    /\ clock' = clock + 1
    /\ payload' = <<>>
    /\ provider' = "error"
    /\ pc' = "save_ai"
    /\ UNCHANGED <<file, config, prompt, nturns, thr>>
    /\ UNCHANGED walkVars
    /\ UNCHANGED jsonVars
    /\ UNCHANGED slugVars
    /\ UNCHANGED streamVars

\* save_chat(file_path, ai_turn)
SaveAI ==
    /\ pc = "save_ai"
    /\ file' = AppendLine(file, cur)
    /\ pc' = "check"
    /\ UNCHANGED <<history, total_tokens, cur, payload, provider, config, prompt, nturns, clock, thr>>
    /\ UNCHANGED walkVars
    /\ UNCHANGED jsonVars
    /\ UNCHANGED slugVars
    /\ UNCHANGED streamVars

\* the budget test lets a total equal to max_context pass
BudgetOkLoose ==
    /\ pc = "check"
    /\ total_tokens <= max_context
    /\ pc' = "prompt"
    /\ UNCHANGED <<file, history, total_tokens, cur, payload, provider, config, prompt, nturns, clock, thr>>
    /\ UNCHANGED walkVars
    /\ UNCHANGED jsonVars
    /\ UNCHANGED slugVars
    /\ UNCHANGED streamVars

\* total_tokens < max_context: next iteration
BudgetOk ==
    /\ pc = "check"
    /\ total_tokens < max_context
    /\ pc' = "prompt"
    /\ UNCHANGED <<file, history, total_tokens, cur, payload, provider, config, prompt, nturns, clock, thr>>
    /\ UNCHANGED walkVars
    /\ UNCHANGED jsonVars
    /\ UNCHANGED slugVars
    /\ UNCHANGED streamVars

\* total_tokens >= max_context: a daemon thread running run_summarization starts
Launch ==
    /\ pc = "check"
    /\ total_tokens >= max_context
    /\ \E t \in Threads :
          /\ thr[t].pc = "idle"
          /\ \A s \in Threads : s < t => thr[s].pc # "idle"
          /\ thr' = [thr EXCEPT ![t].pc = "start"]
    /\ pc' = "prompt"
    /\ UNCHANGED <<file, history, total_tokens, cur, payload, provider, config, prompt, nturns, clock>>
    /\ UNCHANGED walkVars
    /\ UNCHANGED jsonVars
    /\ UNCHANGED slugVars
    /\ UNCHANGED streamVars

\* ------------------------------------------------------------- run_summarization
\* a thread that has ended: its locals are gone
Ended(how) == [IdleThread EXCEPT !.pc = how]

\* summarize_text(history.copy(), int(context_limit * 0.60), file_path): the
\* window is walked over the copy (history[0] of an empty list raises) and the
\* request is sent
Snapshot(t) ==
    /\ thr[t].pc = "start"
    /\ IF history = <<>>
       THEN thr' = [thr EXCEPT ![t] = Ended("crashed")]
       ELSE thr' = [thr EXCEPT ![t].pc = "request",
                               ![t].sys = history[1].content,
                               ![t].win = Window(history, summarize_target)]
    /\ UNCHANGED <<file, history, total_tokens, pc, cur, payload, provider, config, prompt, nturns, clock>>
    /\ UNCHANGED walkVars
    /\ UNCHANGED jsonVars
    /\ UNCHANGED slugVars
    /\ UNCHANGED streamVars

\* make_api_request_async answers
RequestOk(t) ==
    /\ thr[t].pc = "request"
    /\ \E r \in SummaryTexts :
          thr' = [thr EXCEPT ![t].pc = "read",
                             ![t].asked =
                                 DaemonSummarizePrompt(SummaryPrompt(thr[t].sys, thr[t].win)),
                             ![t].res = r]
    /\ UNCHANGED <<file, history, total_tokens, pc, cur, payload, provider, config, prompt, nturns, clock>>
    /\ UNCHANGED walkVars
    /\ UNCHANGED jsonVars
    /\ UNCHANGED slugVars
    /\ UNCHANGED streamVars

\* the log is opened for writing before the answer is there
RequestFailsTruncating(t) ==
    /\ thr[t].pc = "request"
    /\ thr' = [thr EXCEPT ![t] = Ended("failed")]
    /\ file' = <<>>
    /\ UNCHANGED <<history, total_tokens, pc, cur, payload, provider, config, prompt, nturns, clock>>
    /\ UNCHANGED walkVars
    /\ UNCHANGED jsonVars
    /\ UNCHANGED slugVars
    /\ UNCHANGED streamVars

\* the history is cleared for the reload before the pass is known to succeed
RequestFailsClears(t) ==
    /\ thr[t].pc = "request"
    /\ thr' = [thr EXCEPT ![t] = Ended("failed")]
    /\ history' = <<>>
    /\ total_tokens' = 0
    /\ UNCHANGED <<file, pc, cur, payload, provider, config, prompt, nturns, clock>>
    /\ UNCHANGED walkVars
    /\ UNCHANGED jsonVars
    /\ UNCHANGED slugVars
    /\ UNCHANGED streamVars

\* make_api_request_async raises typer.Exit(code=1): the thread ends
RequestFails(t) ==
    /\ thr[t].pc = "request"
    /\ thr' = [thr EXCEPT ![t] = Ended("failed")]
    /\ UNCHANGED <<file, history, total_tokens, pc, cur, payload, provider, config, prompt, nturns, clock>>
    /\ UNCHANGED walkVars
    /\ UNCHANGED jsonVars
    /\ UNCHANGED slugVars
    /\ UNCHANGED streamVars

\* lines = f.readlines(); system_line = lines[0] (raises on an empty file);
\* summary_msg is built with the time of now
ReadLines(t) ==
    /\ thr[t].pc = "read"
    /\ IF file = <<>>
       THEN /\ thr' = [thr EXCEPT ![t] = Ended("crashed")]
            /\ clock' = clock
       ELSE /\ thr' = [thr EXCEPT ![t].pc = "open",
                                  ![t].lines = file,
                                  ![t].summary =
                                      Turn("system", <<"Summary:">> \o thr[t].res, clock)]
            /\ clock' = clock + 1
    /\ UNCHANGED <<file, history, total_tokens, pc, cur, payload, provider, config, prompt, nturns>>
    /\ UNCHANGED walkVars
    /\ UNCHANGED jsonVars
    /\ UNCHANGED slugVars
    /\ UNCHANGED streamVars

\* open(file_path, "w") truncates the file
OpenWrite(t) ==
    /\ thr[t].pc = "open"
    /\ file' = <<>>
    /\ thr' = [thr EXCEPT ![t].pc = "write"]
    /\ UNCHANGED <<history, total_tokens, pc, cur, payload, provider, config, prompt, nturns, clock>>
    /\ UNCHANGED walkVars
    /\ UNCHANGED jsonVars
    /\ UNCHANGED slugVars
    /\ UNCHANGED streamVars

\* the three writes reach the file when the handle is closed
WriteBack(t) ==
    /\ thr[t].pc = "write"
    /\ file' \in Overwrite(file, NewContent(thr[t].lines, Len(thr[t].win), thr[t].summary))
    /\ thr' = [thr EXCEPT ![t] = [IdleThread EXCEPT !.pc = "clear", !.win = thr[t].win]]
    /\ UNCHANGED <<history, total_tokens, pc, cur, payload, provider, config, prompt, nturns, clock>>
    /\ UNCHANGED walkVars
    /\ UNCHANGED jsonVars
    /\ UNCHANGED slugVars
    /\ UNCHANGED streamVars

\* history.clear()
ReloadClear(t) ==
    /\ thr[t].pc = "clear"
    /\ history' = <<>>
    /\ thr' = [thr EXCEPT ![t].pc = "extend"]
    /\ UNCHANGED <<file, total_tokens, pc, cur, payload, provider, config, prompt, nturns, clock>>
    /\ UNCHANGED walkVars
    /\ UNCHANGED jsonVars
    /\ UNCHANGED slugVars
    /\ UNCHANGED streamVars

\* history.extend(load_chat_history(file_path)), where json.loads raises on a
\* malformed line and the thread ends; then
\* total_tokens = sum(count_tokens(msg["content"]) for msg in history)
ReloadExtend(t) ==
    /\ thr[t].pc = "extend"
    /\ IF Loadable(file)
       THEN /\ history' = history \o load_chat_history(file)
            /\ total_tokens' = SumTokens(history')
            /\ thr' = [thr EXCEPT ![t] = Ended("done")]
       ELSE /\ history' = history
            /\ total_tokens' = total_tokens
            /\ thr' = [thr EXCEPT ![t] = Ended("crashed")]
    /\ UNCHANGED <<file, pc, cur, payload, provider, config, prompt, nturns, clock>>
    /\ UNCHANGED walkVars
    /\ UNCHANGED jsonVars
    /\ UNCHANGED slugVars
    /\ UNCHANGED streamVars

Next ==
    \/ ReadBye
    \/ ReadEmpty
    \/ ReadPrompt
    \/ SaveUser
    \/ SaveFails
    \/ SendRequest
    \/ StreamFails
    \/ StreamDone
    \/ StreamError
    \/ SaveAI
    \/ BudgetOk
    \/ Launch
    \/ \E t \in Threads : Snapshot(t)
    \/ \E t \in Threads : RequestOk(t)
    \/ \E t \in Threads : RequestFails(t)
    \/ \E t \in Threads : ReadLines(t)
    \/ \E t \in Threads : OpenWrite(t)
    \/ \E t \in Threads : WriteBack(t)
    \/ \E t \in Threads : ReloadClear(t)
    \/ \E t \in Threads : ReloadExtend(t)

Spec == Init /\ [][Next]_vars

\* ------------------------------------------------- a failing token counter
\* count_tokens is called with no handler around it: when it raises, the
\* exception leaves the statement that called it.

\* user_tokens = count_tokens(prompt, ...) raises: the loop ends before the
\* user turn is appended
CountUserFails ==
    /\ pc = "prompt"
    /\ nturns < MaxTurns
    /\ \E input \in Inputs :
          /\ StripInput(input) # <<>>
          /\ LowerText(StripInput(input)) # <<"/bye">>
          /\ prompt' = StripInput(input)
          /\ cur' = Turn("user", prompt', 0)
    /\ pc' = "count_error"
    /\ UNCHANGED <<file, history, total_tokens, payload, provider, config, nturns, clock, thr>>
    /\ UNCHANGED walkVars
    /\ UNCHANGED jsonVars
    /\ UNCHANGED slugVars
    /\ UNCHANGED streamVars

\* ai_tokens = count_tokens(ai_response, ...) raises: the loop ends before
\* the assistant turn is appended or saved
CountAIFails ==
    /\ pc = "stream"
    /\ \E ai_response \in Responses : cur' = Turn("assistant", ai_response, 0)
    /\ payload' = <<>>
    /\ provider' = "ok"
    /\ pc' = "count_error"
    /\ UNCHANGED <<file, history, total_tokens, config, prompt, nturns, clock, thr>>
    /\ UNCHANGED walkVars
    /\ UNCHANGED jsonVars
    /\ UNCHANGED slugVars
    /\ UNCHANGED streamVars

\* extra_tokens = count_tokens(msg["content"], ...) raises in the walk: the
\* thread ends before the request
WalkCountFails(t) ==
    /\ thr[t].pc = "start"
    /\ Len(history) > 1
    /\ thr' = [thr EXCEPT ![t] = Ended("count_error")]
    /\ UNCHANGED <<file, history, total_tokens, pc, cur, payload, provider, config, prompt, nturns, clock>>
    /\ UNCHANGED walkVars
    /\ UNCHANGED jsonVars
    /\ UNCHANGED slugVars
    /\ UNCHANGED streamVars

\* the sum after the reload raises: the history is reloaded, total_tokens
\* keeps its old value and the thread ends
ReloadCountFails(t) ==
    /\ thr[t].pc = "extend"
    /\ Loadable(file)
    /\ file # <<>>
    /\ history' = history \o load_chat_history(file)
    /\ thr' = [thr EXCEPT ![t] = Ended("count_error")]
    /\ UNCHANGED <<file, total_tokens, pc, cur, payload, provider, config, prompt, nturns, clock>>
    /\ UNCHANGED walkVars
    /\ UNCHANGED jsonVars
    /\ UNCHANGED slugVars
    /\ UNCHANGED streamVars

NextCount ==
    \/ Next
    \/ CountUserFails
    \/ CountAIFails
    \/ \E t \in Threads : WalkCountFails(t)
    \/ \E t \in Threads : ReloadCountFails(t)

SpecCount == Init /\ [][NextCount]_vars

\* ------------------------------------------------------------- the window walk alone
\* turns a history can hold after its first element
WalkTurns ==
    { Turn("user", <<"q">>, 1), Turn("assistant", <<"a", "a">>, 1),
      Turn("user", <<"q", "q", "q">>, 1), PersonaTurn }

WalkHistories ==
    { <<PersonaTurn>> \o s : s \in UNION { [1..n -> WalkTurns] : n \in 0..MaxWinLen } }

InitWalk ==
    /\ file = <<Dumps(PersonaTurn)>>
    /\ history = <<PersonaTurn>>
    /\ total_tokens = SumTokens(<<PersonaTurn>>)
    /\ pc = "off"
    /\ config = "ok"
    /\ prompt = NoInput
    /\ cur = NoTurn
    /\ payload = <<>>
    /\ provider = "none"
    /\ nturns = 0
    /\ clock = 1
    /\ thr = [t \in Threads |-> IdleThread]
    /\ wh \in WalkHistories
    /\ wmax \in 0..MaxTarget
    /\ wres = <<>>
    /\ wpc = "ready"
    /\ jturns = <<>> /\ jfile = <<>> /\ jn = 0 /\ jout = <<>> /\ jpc = "off"
    /\ slug_name = <<>> /\ slug_out = <<>>
    /\ deltas = <<>> /\ di = 0 /\ body = <<>> /\ full_response = <<>>

\* summarize_text's loop applied to (wh, wmax)
ApplyWindow ==
    /\ wpc = "ready"
    /\ wres' = Window(wh, wmax)
    /\ wpc' = "done"
    /\ UNCHANGED <<wh, wmax>>
    /\ UNCHANGED sessionVars
    /\ UNCHANGED jsonVars
    /\ UNCHANGED slugVars
    /\ UNCHANGED streamVars

NextWalk == ApplyWindow

SpecWalk == InitWalk /\ [][NextWalk]_vars

\* ------------------------------------------------------------- chat new
\* the persona line of an earlier session
OldPersona == Turn("system", PersonaText, 0 - 2)

\* turns an earlier session has left in its log
OldTurns ==
    { Turn("user", <<"q">>, 0 - 1), Turn("assistant", <<"a", "a", "a">>, 0 - 1),
      Turn("assistant", <<>>, 0 - 1), Turn("system", <<"Summary:", "gist">>, 0 - 1) }

\* what is at os.path.join(chat_directory, slugify(name)) when chat_new runs:
\* nothing, or the log of an earlier session whose name has the same slug
ExistingLogs ==
    {<<>>} \cup
    { <<Dumps(OldPersona)>> \o [i \in 1..Len(s) |-> Dumps(s[i])] :
        s \in UNION { [1..n -> OldTurns] : n \in 0..MaxOldLen } }

InitNew ==
    /\ file \in ExistingLogs
    /\ history = <<>>
    /\ total_tokens = 0
    /\ pc = "new"
    /\ config \in Configs
    /\ prompt = NoInput
    /\ cur = NoTurn
    /\ payload = <<>>
    /\ provider = "none"
    /\ nturns = 0
    /\ clock = 0
    /\ thr = [t \in Threads |-> IdleThread]
    /\ wh = <<>> /\ wmax = 0 /\ wres = <<>> /\ wpc = "off"
    /\ jturns = <<>> /\ jfile = <<>> /\ jn = 0 /\ jout = <<>> /\ jpc = "off"
    /\ slug_name = <<>> /\ slug_out = <<>>
    /\ deltas = <<>> /\ di = 0 /\ body = <<>> /\ full_response = <<>>

\* chat_new: data is built with the time of now, save_chat(file_path, data)
\* appends it, and run_chat_loop(file_path, [data]) is entered
ChatNew ==
    /\ pc = "new"
    /\ LET data == Turn("system", PersonaText, clock)
       IN /\ file' = AppendLine(file, data)
          /\ history' = <<data>>
    /\ clock' = clock + 1
    /\ pc' = "config"
    /\ UNCHANGED <<total_tokens, cur, payload, provider, config, prompt, nturns, thr>>
    /\ UNCHANGED walkVars
    /\ UNCHANGED jsonVars
    /\ UNCHANGED slugVars
    /\ UNCHANGED streamVars

\* chat_new: save_chat fails with OSError: typer.Exit(code=1)
ChatNewSaveFails ==
    /\ pc = "new"
    /\ pc' = "exited"
    /\ UNCHANGED <<file, history, total_tokens, cur, payload, provider, config, prompt, nturns, clock, thr>>
    /\ UNCHANGED walkVars
    /\ UNCHANGED jsonVars
    /\ UNCHANGED slugVars
    /\ UNCHANGED streamVars

\* run_chat_loop: load_config returns a dict with the key active_model; the
\* total is summed over the history
ConfigOk ==
    /\ pc = "config"
    /\ config \in {"no_provider", "ok"}
    /\ total_tokens' = SumTokens(history)
    /\ pc' = "prompt"
    /\ UNCHANGED <<file, history, cur, payload, provider, config, prompt, nturns, clock, thr>>
    /\ UNCHANGED walkVars
    /\ UNCHANGED jsonVars
    /\ UNCHANGED slugVars
    /\ UNCHANGED streamVars

\* run_chat_loop: load_config returns {} or a dict without active_model, and
\* config["active_model"] raises KeyError: the process ends with exit code 1
ConfigFails ==
    /\ pc = "config"
    /\ config \in {"none", "no_model"}
    /\ pc' = "exited"
    /\ UNCHANGED <<file, history, total_tokens, cur, payload, provider, config, prompt, nturns, clock, thr>>
    /\ UNCHANGED walkVars
    /\ UNCHANGED jsonVars
    /\ UNCHANGED slugVars
    /\ UNCHANGED streamVars

NextNew ==
    \/ ChatNew
    \/ ChatNewSaveFails
    \/ ConfigOk
    \/ ConfigFails

SpecNew == InitNew /\ [][NextNew]_vars

\* ------------------------------------------------------------- save, then load
\* Here a content is a sequence of characters and the log is the sequence of
\* characters save_chat writes.  A line holds the role and the content of a
\* turn: {"role","content"}; the key names and the timestamp are left out.
LF == "LF"
QUOTE == "QUOTE"
BACKSLASH == "BACKSLASH"
SPACE == "SPACE"

\* the characters a content is made of
ContentChars == {"n", SPACE, LF, QUOTE, BACKSLASH}

JsonRoles == {"user", "assistant"}

RoleChars(r) == IF r = "user" THEN <<"u">> ELSE <<"a">>

RoleOf(chars) == IF chars = <<"u">> THEN "user" ELSE "assistant"

JsonContents == UNION { [1..n -> ContentChars] : n \in 0..MaxJsonLen }

JsonTurn(r, c) == [role |-> r, content |-> c]

JsonTurns == { JsonTurn(r, c) : r \in JsonRoles, c \in JsonContents }

\* the escaping that leaves a line feed as it is
EscapeCharKeepsLF(c) ==
    IF c \in {QUOTE, BACKSLASH} THEN <<BACKSLASH, c>> ELSE <<c>>

\* json.dumps of one character of a string
EscapeChar(c) ==
    IF c = LF THEN <<BACKSLASH, "n">>
    ELSE IF c \in {QUOTE, BACKSLASH} THEN <<BACKSLASH, c>>
    ELSE <<c>>

RECURSIVE Escape(_)
Escape(text) ==
    IF text = <<>> THEN <<>> ELSE EscapeChar(Head(text)) \o Escape(Tail(text))

\* json.dumps(data)
JsonDumps(t) ==
    <<"{", QUOTE>> \o Escape(RoleChars(t.role)) \o <<QUOTE, ",", QUOTE>>
        \o Escape(t.content) \o <<QUOTE, "}">>

\* file.write(json_line + "\n") on a file opened with "a"
JsonAppend(text, t) == text \o JsonDumps(t) \o <<LF>>

\* for line in file: the pieces between line feeds
RECURSIVE SplitLines(_, _, _)
SplitLines(text, piece, acc) ==
    IF text = <<>> THEN (IF piece = <<>> THEN acc ELSE Append(acc, piece))
    ELSE IF Head(text) = LF THEN SplitLines(Tail(text), <<>>, Append(acc, piece))
    ELSE SplitLines(Tail(text), Append(piece, Head(text)), acc)

RECURSIVE StripLeft(_)
StripLeft(line) ==
    IF line # <<>> /\ Head(line) \in {SPACE, LF} THEN StripLeft(Tail(line)) ELSE line

RECURSIVE StripRight(_)
StripRight(line) ==
    IF line # <<>> /\ line[Len(line)] \in {SPACE, LF}
    THEN StripRight(SubSeq(line, 1, Len(line) - 1))
    ELSE line

\* line.strip()
Strip(line) == StripRight(StripLeft(line))

NoString == [ok |-> FALSE, val |-> <<>>, next |-> 0]

\* json.loads of a string literal whose opening quote is before position i
RECURSIVE ScanString(_, _, _)
ScanString(line, i, acc) ==
    IF i > Len(line) THEN NoString
    ELSE IF line[i] = QUOTE THEN [ok |-> TRUE, val |-> acc, next |-> i + 1]
    ELSE IF line[i] = LF THEN NoString
    ELSE IF line[i] = BACKSLASH
         THEN IF i + 1 > Len(line) THEN NoString
              ELSE IF line[i + 1] = "n" THEN ScanString(line, i + 2, Append(acc, LF))
              ELSE IF line[i + 1] \in {QUOTE, BACKSLASH}
                   THEN ScanString(line, i + 2, Append(acc, line[i + 1]))
              ELSE NoString
    ELSE ScanString(line, i + 1, Append(acc, line[i]))

NoObject == [ok |-> FALSE, obj |-> JsonTurn("none", <<>>)]

\* json.loads(line)
JsonLoads(line) ==
    IF ~(Len(line) >= 2 /\ line[1] = "{" /\ line[2] = QUOTE) THEN NoObject
    ELSE LET r == ScanString(line, 3, <<>>)
         IN IF ~(r.ok /\ r.next + 1 <= Len(line)
                     /\ line[r.next] = "," /\ line[r.next + 1] = QUOTE)
            THEN NoObject
            ELSE LET c == ScanString(line, r.next + 2, <<>>)
                 IN IF c.ok /\ c.next = Len(line) /\ line[c.next] = "}"
                    THEN [ok |-> TRUE, obj |-> JsonTurn(RoleOf(r.val), c.val)]
                    ELSE NoObject

\* the non-blank stripped lines of the log
JsonLines(text) ==
    LET pieces == SplitLines(text, <<>>, <<>>)
        stripped == [i \in 1..Len(pieces) |-> Strip(pieces[i])]
    IN SelectSeq(stripped, LAMBDA l : l # <<>>)

InitJson ==
    /\ file = <<Dumps(PersonaTurn)>>
    /\ history = <<PersonaTurn>>
    /\ total_tokens = SumTokens(<<PersonaTurn>>)
    /\ pc = "off"
    /\ config = "ok"
    /\ prompt = NoInput
    /\ cur = NoTurn
    /\ payload = <<>>
    /\ provider = "none"
    /\ nturns = 0
    /\ clock = 1
    /\ thr = [t \in Threads |-> IdleThread]
    /\ wh = <<>> /\ wmax = 0 /\ wres = <<>> /\ wpc = "off"
    /\ jturns \in UNION { [1..n -> JsonTurns] : n \in 0..MaxJsonTurns }
    /\ jfile = <<>>
    /\ jn = 0
    /\ jout = <<>>
    /\ jpc = "saving"
    /\ slug_name = <<>> /\ slug_out = <<>>
    /\ deltas = <<>> /\ di = 0 /\ body = <<>> /\ full_response = <<>>

\* save_chat(file_path, turn) for the next turn
JsonSave ==
    /\ jpc = "saving"
    /\ jn < Len(jturns)
    /\ jfile' = JsonAppend(jfile, jturns[jn + 1])
    /\ jn' = jn + 1
    /\ UNCHANGED <<jturns, jout, jpc>>
    /\ UNCHANGED sessionVars
    /\ UNCHANGED walkVars
    /\ UNCHANGED slugVars
    /\ UNCHANGED streamVars

\* load_chat_history(file_path): json.loads raises on a malformed line
JsonLoad ==
    /\ jpc = "saving"
    /\ jn = Len(jturns)
    /\ LET lines == JsonLines(jfile)
           loaded == [i \in 1..Len(lines) |-> JsonLoads(lines[i])]
       IN IF \A i \in 1..Len(loaded) : loaded[i].ok
          THEN /\ jout' = [i \in 1..Len(loaded) |-> loaded[i].obj]
               /\ jpc' = "loaded"
          ELSE /\ jout' = jout
               /\ jpc' = "raised"
    /\ UNCHANGED <<jturns, jfile, jn>>
    /\ UNCHANGED sessionVars
    /\ UNCHANGED walkVars
    /\ UNCHANGED slugVars
    /\ UNCHANGED streamVars

NextJson ==
    \/ JsonSave
    \/ JsonLoad

SpecJson == InitJson /\ [][NextJson]_vars

\* ------------------------------------------------------------- slugify
\* A session name is a sequence of characters: a lower-case letter, an
\* upper-case letter, a digit, a white-space character, a hyphen, and a
\* character outside [a-z0-9-].
NameChars == {"a", "A", "1", " ", "-", "!"}

Names == UNION { [1..n -> NameChars] : n \in 0..MaxNameLen }

\* str.lower on one character
LowerChar(c) == IF c = "A" THEN "a" ELSE c

\* the rest of t after its leading white space and hyphens
RECURSIVE DropRun(_)
DropRun(t) ==
    IF t # <<>> /\ Head(t) \in {" ", "-"} THEN DropRun(Tail(t)) ELSE t

\* re.sub(r"[\s-]+", "-", text)
RECURSIVE CollapseRuns(_)
CollapseRuns(t) ==
    IF t = <<>> THEN <<>>
    ELSE IF Head(t) \in {" ", "-"} THEN <<"-">> \o CollapseRuns(DropRun(Tail(t)))
    ELSE <<Head(t)>> \o CollapseRuns(Tail(t))

\* re.sub(r"[^a-z0-9-]", "", text)
RemoveOthers(t) == SelectSeq(t, LAMBDA c : c \in {"a", "1", "-"})

\* slugify without its suffix
SlugStem(text) ==
    LET lowered == [i \in 1..Len(StripInput(text)) |-> LowerChar(StripInput(text)[i])]
    IN RemoveOthers(CollapseRuns(lowered))

slugify(text) == SlugStem(text) \o <<".json">>

InitSlug ==
    /\ file = <<Dumps(PersonaTurn)>>
    /\ history = <<PersonaTurn>>
    /\ total_tokens = SumTokens(<<PersonaTurn>>)
    /\ pc = "off"
    /\ config = "ok"
    /\ prompt = NoInput
    /\ cur = NoTurn
    /\ payload = <<>>
    /\ provider = "none"
    /\ nturns = 0
    /\ clock = 1
    /\ thr = [t \in Threads |-> IdleThread]
    /\ wh = <<>> /\ wmax = 0 /\ wres = <<>> /\ wpc = "off"
    /\ jturns = <<>> /\ jfile = <<>> /\ jn = 0 /\ jout = <<>> /\ jpc = "off"
    /\ slug_name \in Names
    /\ slug_out = <<>>
    /\ deltas = <<>> /\ di = 0 /\ body = <<>> /\ full_response = <<>>

\* chat_name = slugify(final_session_name)
ApplySlugify ==
    /\ slug_out = <<>>
    /\ slug_out' = slugify(slug_name)
    /\ UNCHANGED slug_name
    /\ UNCHANGED sessionVars
    /\ UNCHANGED walkVars
    /\ UNCHANGED jsonVars
    /\ UNCHANGED streamVars

NextSlug == ApplySlugify

SpecSlug == InitSlug /\ [][NextSlug]_vars

\* ==================================================== streamed answer
\* universal_ai_stream_with_context feeds the body of the /hermit/chat
\* response from the provider's stream; transcribe_stream reads the body one
\* character at a time.  A text is a sequence of characters here.
MaxDeltas == 3
MaxDeltaLen == 2

DeltaChars == {"a", " "}

\* chunk.choices[0].delta.content is None
NoDelta == <<"None">>

\* the message the generator yields when the stream raises
ErrorChars == <<"E", "r", "r">>

DeltaTexts == UNION { [1..n -> DeltaChars] : n \in 0..MaxDeltaLen }

Deltas == DeltaTexts \cup {NoDelta}

Streams == UNION { [1..n -> Deltas] : n \in 0..MaxDeltas }

\* full_response += chunk
AccumulateSkipsSpace(full, chunk) ==
    IF chunk = <<" ">> THEN full ELSE full \o chunk

Accumulate(full, chunk) == full \o chunk

InitStream ==
    /\ file = <<Dumps(PersonaTurn)>>
    /\ history = <<PersonaTurn>>
    /\ total_tokens = SumTokens(<<PersonaTurn>>)
    /\ pc = "off"
    /\ config = "ok"
    /\ prompt = NoInput
    /\ cur = NoTurn
    /\ payload = <<>>
    /\ provider = "none"
    /\ nturns = 0
    /\ clock = 1
    /\ thr = [t \in Threads |-> IdleThread]
    /\ wh = <<>> /\ wmax = 0 /\ wres = <<>> /\ wpc = "off"
    /\ jturns = <<>> /\ jfile = <<>> /\ jn = 0 /\ jout = <<>> /\ jpc = "off"
    /\ slug_name = <<>> /\ slug_out = <<>>
    /\ deltas \in Streams
    /\ di = 0
    /\ body = <<>>
    /\ full_response = <<>>

\* for chunk in stream: content = delta.content; yield it unless it is None
DaemonYield ==
    /\ di < Len(deltas)
    /\ di' = di + 1
    /\ LET content == deltas[di + 1]
       IN  body' = IF content # NoDelta THEN body \o content ELSE body
    /\ UNCHANGED <<deltas, full_response>>
    /\ UNCHANGED sessionVars
    /\ UNCHANGED walkVars
    /\ UNCHANGED jsonVars
    /\ UNCHANGED slugVars

\* the stream raises in place of its next item: the generator yields the
\* error message and ends
DaemonStreamError ==
    /\ di < Len(deltas)
    /\ deltas[Len(deltas)] # ErrorChars
    /\ deltas' = SubSeq(deltas, 1, di) \o <<ErrorChars>>
    /\ di' = di + 1
    /\ body' = body \o ErrorChars
    /\ UNCHANGED full_response
    /\ UNCHANGED sessionVars
    /\ UNCHANGED walkVars
    /\ UNCHANGED jsonVars
    /\ UNCHANGED slugVars

\* one round of the loop over response.iter_content(chunk_size=1): an empty
\* chunk is skipped, any other is added to full_response
ClientChunk ==
    /\ body # <<>>
    /\ \E chunk \in {<<>>, <<Head(body)>>} :
          IF chunk = <<>>
          THEN UNCHANGED <<body, full_response>>
          ELSE /\ body' = Tail(body)
               /\ full_response' = Accumulate(full_response, chunk)
    /\ UNCHANGED <<deltas, di>>
    /\ UNCHANGED sessionVars
    /\ UNCHANGED walkVars
    /\ UNCHANGED jsonVars
    /\ UNCHANGED slugVars

NextStream == DaemonYield \/ DaemonStreamError \/ ClientChunk

SpecStream == InitStream /\ [][NextStream]_vars

\* ============================================================= properties
Range(f) == { f[i] : i \in 1..Len(f) }

NoPassInFlight == \A t \in Threads : ~InFlight(t)

\* the turns of h other than copies of its first element, in order
Others(h) == SelectSeq(Tail(h), LAMBDA m : m # h[1])

\* C1: when the provider call of a summarization pass fails, the log file is
\* left exactly as it was, and the failed pass does nothing afterwards.
C1_FailedPassLeavesLog ==
    [][\A t \in Threads :
          /\ (thr[t].pc = "request" /\ thr'[t].pc = "failed") => file' = file
          /\ thr[t].pc = "failed" => thr'[t].pc = "failed"]_vars

C1_Witness ==
    \E t \in Threads : thr[t].pc = "failed" /\ Len(file) > 1 /\ pc = "prompt"

\* C2: the turn the loop has just appended to the log is in the log whenever
\* no rewrite is under way and no pass had it in its window: an append made
\* while a pass is between reading the file and finishing writing it is not
\* lost.  (Every pass that has rewritten the log still holds its window.)
C2_AppendSurvivesRewrite ==
    ( /\ pc \in {"request", "stream", "check"}
      /\ \A t \in Threads :
            /\ thr[t].pc \in {"idle", "start", "request", "read", "open",
                               "clear", "extend", "failed"}
            /\ cur \notin Range(thr[t].win) )
    => Dumps(cur) \in Range(file)

\* C3: at most one summarization task of the session is in flight.
C3_OnePassInFlight == Cardinality({ t \in Threads : InFlight(t) }) <= 1

\* C4: once no summarization pass is in flight, the first line of the log is
\* the original persona turn.
C4_PersonaFirst ==
    NoPassInFlight => (Len(file) >= 1 /\ file[1] = Dumps(PersonaTurn))

\* C5 (as claimed): the window's token sum is <= T and, if a turn follows the
\* window, adding its tokens would exceed T.
C5_WindowMaximalStrict ==
    wpc = "done" =>
        LET o == Others(wh)
            k == Len(wres)
        IN /\ SumTokens(wres) <= wmax
           /\ k < Len(o) => SumTokens(wres) + count_tokens(o[k + 1].content) > wmax

\* C5 (amended): the window's token sum is <= T and, if a turn follows the
\* window, adding its tokens would reach or exceed T.
C5_WindowMaximal ==
    wpc = "done" =>
        LET o == Others(wh)
            k == Len(wres)
        IN /\ SumTokens(wres) <= wmax
           /\ k < Len(o) => SumTokens(wres) + count_tokens(o[k + 1].content) >= wmax

C5_Witness ==
    /\ wpc = "done"
    /\ Len(wres) >= 1
    /\ Len(wres) < Len(Others(wh))
    /\ SumTokens(wres) + count_tokens(Others(wh)[Len(wres) + 1].content) = wmax

\* C6: a successful pass with a window of k turns replaces the log it finds
\* (persona + n turns) by the persona line, the summary line and the n-k lines
\* after the window; the k lines it deletes are the window's turns.
C6_ExactlyWindowDeleted ==
    [][\A t \in Threads :
          /\ (thr[t].pc = "open" /\ thr'[t].pc = "write") =>
                LET k == Len(thr[t].win)
                IN /\ Len(file) >= k + 1
                   /\ \A i \in 1..k : file[i + 1] = Dumps(thr[t].win[i])
                   /\ NewContent(thr[t].lines, k, thr[t].summary)
                        = <<Dumps(PersonaTurn), Dumps(thr[t].summary)>>
                            \o SubSeq(file, k + 2, Len(file))
          /\ (thr[t].pc = "write" /\ thr'[t].pc = "clear") =>
                file' = NewContent(thr[t].lines, Len(thr[t].win), thr[t].summary)]_vars

\* C7: at every point at which the process may stop, the log is complete:
\* never empty, never holding a partially written line.
C7_LogNeverPartial == Len(file) >= 1 /\ Loadable(file)

C9_HistoryMatchesLog ==
    (NoPassInFlight /\ pc # "exited") =>
        /\ Loadable(file)
        /\ Len(file) <= Len(history)
        /\ \A i \in 1..Len(file) : history[i] = file[i].obj
        /\ Len(history) <= Len(file) + 1
        /\ Len(history) = Len(file) + 1 => pc \in {"save_user", "save_ai"}

\* C10: the reload that ends a successful pass leaves the history equal to
\* the turns loaded from the log and the total equal to their token sum.
C10_ReloadReplaces ==
    [][\A t \in Threads :
          (thr[t].pc = "extend" /\ thr'[t].pc # "extend") =>
              /\ thr'[t].pc = "done"
              /\ history' = load_chat_history(file)
              /\ total_tokens' = SumTokens(load_chat_history(file))]_vars

\* the lines of f that hold the persona text as a system turn
PersonaLines(f) ==
    { i \in 1..Len(f) :
        f[i].valid /\ f[i].obj.role = "system" /\ f[i].obj.content = PersonaText }

\* C11: once chat new has written the log, the log holds the persona system
\* turn exactly once, as its first line, also when the slug of the session name
\* is that of an existing log file.
C11_PersonaOnceFirst ==
    pc \in {"config", "prompt"} =>
        /\ file[1] = Dumps(history[1])
        /\ PersonaLines(file) = {1}

\* the lines of f whose content begins with "Summary:"
SummaryLines(f) ==
    { i \in 1..Len(f) :
        f[i].valid /\ f[i].obj.content # <<>> /\ Head(f[i].obj.content) = "Summary:" }

\* C12: when a pass has written the log, the second line is the system turn
\* whose content is "Summary:" followed by the provider's text, no other line
\* begins with "Summary:", and no turn of the pass's window (an earlier
\* summary turn included) is left in the log.
C12_OneSummarySecond ==
    [][\A t \in Threads :
          (thr[t].pc = "write" /\ thr'[t].pc = "clear") =>
              /\ Len(file') >= 2
              /\ file'[2] = Dumps(thr[t].summary)
              /\ thr[t].summary.role = "system"
              /\ \E r \in SummaryTexts : thr[t].summary.content = <<"Summary:">> \o r
              /\ SummaryLines(file') = {2}
              /\ \A i \in 1..Len(thr[t].win) :
                    Dumps(thr[t].win[i]) \notin Range(file')]_vars

\* text ends with the words of tail
EndsWith(text, tail) ==
    /\ Len(text) >= Len(tail)
    /\ SubSeq(text, Len(text) - Len(tail) + 1, Len(text)) = tail

\* C13: when the provider fails during a chat stream, the assistant turn is
\* built with the error message at the end of its content and appended to the
\* history; the loop then saves that turn to the log (or stops on the save's
\* own I/O error) and goes on to the next prompt.
C13_ProviderErrorInline ==
    [][/\ (pc = "stream" /\ provider' = "error") =>
              /\ pc' = "save_ai"
              /\ cur'.role = "assistant"
              /\ EndsWith(cur'.content, ErrorText)
              /\ history' = Append(history, cur')
       /\ (pc = "save_ai" /\ provider = "error" /\ pc' # pc) =>
              \/ pc' = "check" /\ file' = Append(file, Dumps(cur))
              \/ pc' = "exited" /\ file' = file
       /\ (pc = "check" /\ provider = "error" /\ pc' # pc) => pc' = "prompt"]_vars

C13_Witness ==
    /\ pc = "prompt"
    /\ provider = "error"
    /\ EndsWith(cur.content, ErrorText)
    /\ Len(history) >= 1 /\ history[Len(history)] = cur
    /\ Len(file) >= 1 /\ file[Len(file)] = Dumps(cur)

\* C14: whatever happens to the completion call of a chat turn (timeout,
\* connection failure, bad HTTP status), the loop does not end: the step that
\* leaves the stream builds an assistant turn and appends it to the history.
C14_CallFailureKeepsSession ==
    [][(pc = "stream" /\ pc' # pc) =>
          /\ pc' = "save_ai"
          /\ cur'.role = "assistant"
          /\ history' = Append(history, cur')]_vars

\* C15: the step that leaves a save either has appended the turn to the log
\* or has ended the loop with exit code 1 and the log as it was; once the
\* loop is ended no request is sent and no input is read.
C15_SaveFailureStops ==
    [][/\ (pc \in {"save_user", "save_ai"} /\ pc' # pc) =>
              \/ /\ file' = Append(file, Dumps(cur))
                 /\ pc' = (IF pc = "save_user" THEN "request" ELSE "check")
              \/ /\ pc' = "exited"
                 /\ file' = file
                 /\ payload' = payload
       /\ pc = "exited" =>
              /\ pc' = "exited"
              /\ payload' = payload
              /\ cur' = cur
              /\ nturns' = nturns]_vars

C15_Witness ==
    /\ pc = "exited"
    /\ nturns = 2
    /\ cur.role = "user"
    /\ Dumps(cur) \notin Range(file)
    /\ history[Len(history)] = cur
    /\ \A t \in Threads : thr[t].pc = "idle"

\* C16: the failure of a pass's provider call leaves the loop where it is and
\* the history and the total as they were; and with a failed pass behind it,
\* the loop leaves the budget test of a turn that ends with
\* total_tokens >= max_context by starting a summarization thread.
C16_FailedPassRelaunch ==
    [][/\ \A t \in Threads :
              (thr[t].pc = "request" /\ thr'[t].pc = "failed") =>
                  /\ pc' = pc
                  /\ history' = history
                  /\ total_tokens' = total_tokens
       /\ ( /\ \E s \in Threads : thr[s].pc = "failed"
            /\ pc = "check" /\ pc' # pc
            /\ total_tokens >= max_context ) =>
              /\ pc' = "prompt"
              /\ \E t \in Threads : thr[t].pc = "idle" /\ thr'[t].pc = "start"]_vars

C16_Witness ==
    /\ pc = "prompt"
    /\ thr[1].pc = "failed"
    /\ thr[2].pc = "start"
    /\ Len(history) = 1 + 2 * nturns
    /\ total_tokens = SumTokens(history)
    /\ total_tokens >= max_context

\* the turns of the well-formed lines of f, in file order
WellFormedTurns(f) ==
    LET g == SelectSeq(f, LAMBDA l : l.valid)
    IN [i \in 1..Len(g) |-> g[i].obj]

\* C17: the load that reloads the history after a summarization never aborts:
\* it skips a malformed line and adds all well-formed turns of the log, in
\* file order, to the history.
C17_LoadSkipsMalformed ==
    [][\A t \in Threads :
          (thr[t].pc = "extend" /\ thr'[t].pc # "extend") =>
              /\ thr'[t].pc = "done"
              /\ history' = history \o WellFormedTurns(file)]_vars

FloorOf(num, den, n) ==
    CHOOSE m \in 0..n : den * m <= num * n /\ num * n < den * (m + 1)

\* C20: the loop leaves the budget test of a turn by starting a summarization
\* thread exactly when total_tokens >= floor(0.80 * ContextLimit); no thread
\* is started in any other way; and the window of a started thread is walked
\* with the target floor(0.60 * ContextLimit).
C20_LaunchAtBudget ==
    [][/\ (pc = "check" /\ pc' # pc) =>
              /\ pc' = "prompt"
              /\ (\E t \in Threads : thr[t].pc = "idle" /\ thr'[t].pc = "start")
                    <=> total_tokens >= FloorOf(4, 5, ContextLimit)
       /\ \A t \in Threads :
              /\ (thr[t].pc = "idle" /\ thr'[t].pc # "idle") =>
                    /\ pc = "check"
                    /\ thr'[t].pc = "start"
                    /\ total_tokens >= FloorOf(4, 5, ContextLimit)
              /\ (thr[t].pc = "start" /\ thr'[t].pc = "request") =>
                    thr'[t].win = Window(history, FloorOf(3, 5, ContextLimit))]_vars

C20_Witness ==
    /\ pc = "prompt"
    /\ thr[1].pc = "request"
    /\ thr[1].win # <<>>
    /\ total_tokens = FloorOf(4, 5, ContextLimit)

\* C19: N turns appended with save_chat to an empty log and loaded with
\* load_chat_history come back as the same N turns, in order, with the same
\* role and content, whatever the content (line feeds, quotes, backslashes).
C19_SaveLoadRoundTrip ==
    /\ jpc # "raised"
    /\ jpc = "loaded" => jout = jturns

C19_Witness ==
    /\ jpc = "loaded"
    /\ Len(jout) = 2
    /\ jout[1].content = <<LF, QUOTE>>
    /\ jout[2].content = <<BACKSLASH, "n">>
    /\ jout[1].role # jout[2].role

\* C21: the step that starts a summarization thread takes the loop to the
\* prompt, and while a thread is in flight every step of an iteration is
\* open to the loop: reading a prompt, saving the user turn, sending the
\* request, receiving the answer, saving the assistant turn.
C21_LaunchDoesNotBlock ==
    (\E t \in Threads : InFlight(t)) =>
        /\ (pc = "prompt" /\ nturns < MaxTurns) => ENABLED ReadPrompt
        /\ pc = "save_user" => ENABLED SaveUser
        /\ pc = "request" => ENABLED SendRequest
        /\ pc = "stream" => ENABLED StreamDone
        /\ pc = "save_ai" => ENABLED SaveAI

C21_Witness ==
    /\ pc = "check"
    /\ nturns = 2
    /\ thr[1].pc = "request"
    /\ thr[2].pc = "idle"
    /\ Len(history) = 5

\* C22: a line that is empty once stripped leaves the history, the log, the
\* total, the turn count and the last request as they were and the loop at
\* the prompt; no line that is empty or all white space becomes a user turn.
C22_EmptyInputNoChange ==
    [][/\ (pc = "prompt" /\ prompt' = <<>> /\ prompt' # prompt) =>
              /\ pc' = "prompt"
              /\ history' = history
              /\ file' = file
              /\ total_tokens' = total_tokens
              /\ payload' = payload
              /\ provider' = provider
              /\ cur' = cur
              /\ nturns' = nturns
       /\ (pc = "prompt" /\ pc' = "save_user") =>
              /\ cur'.content = prompt'
              /\ prompt' \notin {<<>>, <<" ">>}]_vars

C22_Witness ==
    /\ pc = "prompt"
    /\ prompt = <<>>
    /\ nturns = 1
    /\ Len(history) = 3
    /\ Len(file) = 3
    /\ \A t \in Threads : thr[t].pc = "idle"

\* the exit token in the letter cases the user can type
ByeForms == {<<"/bye">>, <<"/BYE">>}

\* C23: reading /bye in any letter case ends the loop with the history, the
\* log, the total and the last request as they were; the loop ends in no
\* other way as Terminated; and once Terminated it reads nothing and builds
\* no turn.
C23_ByeTerminates ==
    [][/\ (pc = "prompt" /\ prompt' \in ByeForms) =>
              /\ pc' = "terminated"
              /\ history' = history
              /\ file' = file
              /\ total_tokens' = total_tokens
              /\ payload' = payload
              /\ cur' = cur
              /\ nturns' = nturns
       /\ (pc # "terminated" /\ pc' = "terminated") =>
              /\ pc = "prompt"
              /\ prompt' \in ByeForms
       /\ pc = "terminated" =>
              /\ pc' = "terminated"
              /\ prompt' = prompt
              /\ cur' = cur
              /\ nturns' = nturns
              /\ payload' = payload]_vars

C23_Witness ==
    /\ pc = "terminated"
    /\ prompt = <<"/BYE">>
    /\ nturns = 1
    /\ Len(history) = 3
    /\ Len(file) = 3

\* C24: when the configuration names no active model or no active provider,
\* the session start fails: the loop never comes to read a prompt.
C24_NoConfigNoPrompt == config # "ok" => pc # "prompt"

\* C25: for every session name slugify returns a stem followed by ".json";
\* the stem holds only lower-case letters, digits and hyphens, and no two
\* hyphens in it are adjacent.
C25_SlugShape ==
    slug_out # <<>> =>
        LET n == Len(slug_out) - 1
        IN /\ slug_out[n + 1] = ".json"
           /\ \A i \in 1..n : slug_out[i] \in {"a", "1", "-"}
           /\ \A i \in 1..(n - 1) : ~(slug_out[i] = "-" /\ slug_out[i + 1] = "-")

\* C26: every turn line of the log (persona, user, assistant, summary) has a
\* role, a content and a timestamp, and the timestamp is a time read from the
\* clock before the line was written: the turn about to be saved and the
\* summary about to be written already carry theirs.
C26_LinesStamped ==
    /\ \A i \in 1..Len(file) :
          file[i].valid =>
              /\ DOMAIN file[i].obj = {"role", "content", "timestamp"}
              /\ file[i].obj.role \in {"system", "user", "assistant"}
              /\ file[i].obj.timestamp \in 0..(clock - 1)
    /\ pc \in {"save_user", "save_ai"} => cur.timestamp \in 0..(clock - 1)
    /\ \A t \in Threads :
          thr[t].pc \in {"open", "write"} => thr[t].summary.timestamp \in 0..(clock - 1)

C26_Witness ==
    /\ Len(file) >= 4
    /\ Loadable(file)
    /\ file[1] = Dumps(PersonaTurn)
    /\ SummaryLines(file) = {2}
    /\ \E i \in 1..Len(file) : file[i].obj.role = "user"
    /\ \E i \in 1..Len(file) : file[i].obj.role = "assistant"

\* C27: the window of k turns is the run of the history from its second
\* element on, k turns long, and holds no turn equal to the first element,
\* also when a later turn of the history equals the first.
C27_WindowContiguous ==
    wpc = "done" =>
        /\ wres = SubSeq(wh, 2, Len(wres) + 1)
        /\ \A i \in 1..Len(wres) : wres[i] # wh[1]

\* C28: the text the provider receives for a summarization is the prompt
\* built from the persona content and the role-labelled transcript of the
\* window's turns, and the stored summary is "Summary:" followed by its
\* answer to it.
C28_ProviderGetsWindow ==
    [][\A t \in Threads :
          (thr[t].pc = "request" /\ thr'[t].pc = "read") =>
              thr'[t].asked = SummaryPrompt(thr[t].sys, thr[t].win)]_vars

\* the fragments of a stream in arrival order, joined
RECURSIVE Joined(_)
Joined(ds) ==
    IF ds = <<>> THEN <<>>
    ELSE (IF Head(ds) = NoDelta THEN <<>> ELSE Head(ds)) \o Joined(Tail(ds))

\* C29: what transcribe_stream has accumulated, followed by what is still in
\* the response body, is the fragments delivered so far joined in arrival
\* order; once the stream has ended and the body is read, the returned text
\* is all of the fragments joined, none dropped, repeated or moved.
C29_FragmentsInOrder ==
    /\ full_response \o body = Joined(SubSeq(deltas, 1, di))
    /\ (di = Len(deltas) /\ body = <<>>) => full_response = Joined(deltas)

C29_Witness ==
    /\ Len(deltas) = 3
    /\ di = 3
    /\ body = <<>>
    /\ deltas[2] = NoDelta
    /\ deltas[1] = <<"a", " ">>
    /\ deltas[3] = <<" ", "a">>
    /\ full_response = <<"a", " ", " ", "a">>

\* C30: every user turn and every assistant turn of the history and of the
\* log has a content that is not empty, also after an iteration whose stream
\* delivered nothing.
C30_ContentNonEmpty ==
    /\ \A i \in 1..Len(history) :
          history[i].role \in {"user", "assistant"} => history[i].content # <<>>
    /\ \A i \in 1..Len(file) :
          (file[i].valid /\ file[i].obj.role \in {"user", "assistant"}) =>
              file[i].obj.content # <<>>

\* C31: a failure of the token counter does not leave token accounting:
\* neither the loop nor a summarization thread ends with the counter's
\* exception.
C31_CounterFailureContained ==
    /\ pc # "count_error"
    /\ \A t \in Threads : thr[t].pc # "count_error"

\* C32: when a pass has read the log, each line it is going to remove (the
\* lines after the first, as many as its window has turns) is the saved form
\* of the window's turn at the same position.
C32_RemovedLinesAreWindow ==
    [][\A t \in Threads :
          (thr[t].pc = "read" /\ thr'[t].pc = "open") =>
              \A i \in 1..Len(thr[t].win) :
                  i + 1 <= Len(file) => file[i + 1] = Dumps(thr[t].win[i])]_vars

\* C33: whenever the loop waits for input and no summarization pass is in
\* flight, the running total is the sum of the token counts of the turns of
\* the in-memory history.
C33_TotalIsHistorySum ==
    (pc = "prompt" /\ NoPassInFlight) => total_tokens = SumTokens(history)

\* C34: the message list of every chat request starts with the persona turn,
\* ends with the user turn just entered and holds every turn of the log, in
\* the order of the log.
C34_PayloadHoldsLog ==
    [][(pc = "request" /\ pc' = "stream") =>
          LET logged == WellFormedTurns(file)
          IN  /\ Len(payload') >= 2
              /\ payload'[1] = PersonaTurn
              /\ payload'[Len(payload')] = cur
              /\ cur.role = "user"
              /\ \A i \in 1..Len(logged) : \E j \in 1..Len(payload') :
                     payload'[j] = logged[i]
              /\ \A i1, i2 \in 1..Len(logged) :
                     i1 < i2 => \E j1, j2 \in 1..Len(payload') :
                                   /\ j1 < j2
                                   /\ payload'[j1] = logged[i1]
                                   /\ payload'[j2] = logged[i2]]_vars

\* C35: when the loop starts, the history has the turns of the log file in
\* the order of its lines: turn i of the history is line i of the file.
C35_HistoryIsLogAtStart ==
    (pc = "prompt" /\ nturns = 0 /\ prompt = NoInput) =>
        /\ Len(history) = Len(file)
        /\ \A i \in 1..Len(history) : file[i] = Dumps(history[i])

\* the log that holds the turns of h, one line each
LogOf(h) == [i \in 1..Len(h) |-> Dumps(h[i])]

\* C36: the content a successful pass writes back has no more lines than the
\* log it read, also when its window is empty because the first turn after
\* the persona reaches the target alone.
C36_PassNeverGrowsLog ==
    wpc = "done" =>
        Len(NewContent(LogOf(wh), Len(wres), Turn("system", <<"Summary:", "gist">>, 2)))
            <= Len(LogOf(wh))

\* C37: the timestamps of the turn lines of the log never decrease from one
\* line to the next.
C37_TimestampsOrdered ==
    \A i, j \in 1..Len(file) :
        (i < j /\ file[i].valid /\ file[j].valid) =>
            file[i].obj.timestamp <= file[j].obj.timestamp

\* the events of an iteration happen in the order user line, request, end of
\* stream, assistant line
IterationOrder ==
    /\ (pc = "save_user" /\ pc' = "request") =>
           /\ cur.role = "user"
           /\ file' = Append(file, Dumps(cur))
           /\ payload' = <<>>
    /\ payload' # payload =>
           \/ pc = "request" /\ pc' = "stream"
           \/ pc = "stream" /\ pc' = "save_ai" /\ payload' = <<>>
    /\ (pc = "stream" /\ pc' = "save_ai") =>
           /\ cur'.role = "assistant"
           /\ file' = file
    /\ (pc = "save_ai" /\ pc' = "check") =>
           /\ cur.role = "assistant"
           /\ file' = Append(file, Dumps(cur))

\* C38: in an iteration the user turn is appended to the log, then the
\* request is sent, then the stream ends, then the assistant turn is appended
\* to the log; when the iteration ends after the user turn was saved and
\* before an assistant turn exists, the log ends with that user turn.
C38_IterationOrder ==
    [][/\ IterationOrder
       /\ (pc \in {"request", "stream"} /\ pc' = "exited") =>
              /\ cur.role = "user"
              /\ Len(file') >= 1
              /\ file'[Len(file')] = Dumps(cur)]_vars

\* C39: when the configuration is one with which the session cannot start,
\* no step of chat new creates or changes the log file.
C39_ConfigErrorKeepsLog ==
    [][(config \in {"none", "no_model"}) => (file' = file)]_vars

====
